---- MODULE Spec2Model ----
(***************************************************************************)
(* Food-tracker backend: ingestion of food-log entries with a nutrient     *)
(* lookup, the list query, and the four summary endpoints with their       *)
(* time windows.                                                           *)
(*                                                                         *)
(* Instants are whole hours since 1970-01-01T00:00Z; a wall-clock time is  *)
(* the same count read in a zone's local time.  Nutrient quantities are    *)
(* integers.                                                               *)
(***************************************************************************)
EXTENDS Integers, Sequences, FiniteSets, TLC

\* ------------------------------------------------------------------ bounds

\* Number of POST /foodlogs/ requests accepted during one run.
MaxCreates == 2

\* ------------------------------------------------------- program constants

\* .limit(3) of the top-foods query.
TopLimit == 3
\* Query(..., ge=1900, ...) on year.
YearMin == 1900
\* Query(..., ge=1, le=12) on month.
MonthMin == 1
MonthMax == 12
\* Query(100, ge=1, le=1000) on limit, Query(0, ge=0) on skip.
LimitMin == 1
LimitMax == 1000
SkipMin == 0

\* ---------------------------------------------------------------- helpers

MaxOf(S) == CHOOSE x \in S : \A y \in S : y <= x
MinOf(S) == CHOOSE x \in S : \A y \in S : x <= y

\* Python's `a or b` on numbers: an absent (None) or zero operand is falsy.
OrNum(a, b) == IF a # 0 THEN a ELSE b
\* Python's `a or b` on strings: an absent (None) or empty operand is falsy.
OrStr(a, b) == IF a # "" THEN a ELSE b

\* --------------------------------------------------------------- calendar

\* datetime's proleptic Gregorian calendar.
IsLeap(y) == (y % 4 = 0 /\ y % 100 # 0) \/ y % 400 = 0

DaysInMonth(y, m) ==
    IF m = 2 THEN (IF IsLeap(y) THEN 29 ELSE 28)
    ELSE IF m \in {4, 6, 9, 11} THEN 30 ELSE 31

RECURSIVE DaysBeforeMonth(_, _)
DaysBeforeMonth(y, m) ==
    IF m <= 1 THEN 0 ELSE DaysBeforeMonth(y, m - 1) + DaysInMonth(y, m - 1)

DaysBeforeYear(y) ==
    LET p == y - 1 IN p * 365 + (p \div 4) - (p \div 100) + (p \div 400)

\* date(y, m, d) as days since 1970-01-01 (toordinal() minus the epoch's).
DateOf(y, m, d) ==
    DaysBeforeYear(y) + DaysBeforeMonth(y, m) + d - (DaysBeforeYear(1970) + 1)

\* datetime.combine(date, time.min): the wall-clock hour count of midnight.
Midnight(day) == day * 24

\* datetime(y, m, 1, tzinfo=UTC) as an instant.
DateTimeUTC(y, m, d) == Midnight(DateOf(y, m, d))

\* datetime.now(UTC).year for the instant t.
YearOf(t) ==
    CHOOSE y \in 1970..2037 : DateTimeUTC(y, 1, 1) <= t /\ t < DateTimeUTC(y + 1, 1, 1)

\* ------------------------------------------------------------ time zones

\* The zone rules in force over 2011 and 2012: the offset before the first
\* listed transition, then each transition's instant and new offset (hours).
ZoneDB ==
    ("UTC" :> [init |-> 0, trans |-> <<>>]) @@
    ("America/Chicago" :>
        [init |-> -6,
         trans |-> << [at |-> 361112, off |-> -5], [at |-> 366823, off |-> -6],
                      [at |-> 369848, off |-> -5], [at |-> 375559, off |-> -6] >>]) @@
    ("Pacific/Apia" :>
        [init |-> -10,
         trans |-> << [at |-> 361598, off |-> -11], [at |-> 365798, off |-> -10],
                      [at |-> 368122, off |-> 14], [at |-> 370334, off |-> 13],
                      [at |-> 374702, off |-> 14] >>])

KnownZones == DOMAIN ZoneDB

OffBefore(z, i) == IF i = 1 THEN z.init ELSE z.trans[i - 1].off

\* WallThreshold for fold = 1: the smaller of the two offsets.
WallThresholdFold1(z, i) ==
    z.trans[i].at + (IF OffBefore(z, i) < z.trans[i].off THEN OffBefore(z, i)
                     ELSE z.trans[i].off)

\* zoneinfo, fold = 0: transition i applies to a wall time once the wall time
\* has reached the transition read in the larger of the two offsets around it.
WallThreshold(z, i) ==
    z.trans[i].at + (IF OffBefore(z, i) > z.trans[i].off THEN OffBefore(z, i)
                     ELSE z.trans[i].off)

\* tzinfo.utcoffset of an aware datetime with wall time `wall`, fold = 0.
UtcOffset(z, wall) ==
    LET idx == {i \in DOMAIN z.trans : WallThreshold(z, i) <= wall}
    IN IF idx = {} THEN z.init ELSE z.trans[MaxOf(idx)].off

\* dt.astimezone(UTC) of the aware datetime (wall, z).
AsUTC(z, wall) == wall - UtcOffset(z, wall)

\* ------------------------------------------------------------ data model

\* Columns of the Nutrition table besides id and foodlog_id.
NutritionColumns ==
    {"calories", "protein", "carbs", "fat",
     "vitamin_a", "beta_carotene", "vitamin_b1", "vitamin_b2", "vitamin_b3",
     "vitamin_b5", "vitamin_b6", "vitamin_b9", "vitamin_b12", "vitamin_c",
     "vitamin_d", "vitamin_e", "vitamin_k",
     "calcium", "iron", "magnesium", "phosphorus", "potassium", "sodium",
     "zinc", "copper", "manganese", "selenium", "chromium", "molybdenum",
     "fluoride"}

\* Field(default=0.0) of every Nutrition column.
ColumnDefault(c) == 0

\* Nutrition(foodlog_id=..., **data): a row takes the keys that are columns,
\* the default for a column the data lacks, and ignores every other key.
NutritionRow(nid, foodlog_id, data) ==
    [id |-> nid, foodlog_id |-> foodlog_id,
     vals |-> [c \in NutritionColumns |->
                 IF c \in DOMAIN data THEN data[c] ELSE ColumnDefault(c)]]

\* FoodLog.from_orm(payload) once committed and refreshed.
FoodLogRow(lid, payload, ts) ==
    [id |-> lid, food_name |-> payload.food_name, quantity |-> payload.quantity,
     timestamp |-> ts]

\* --------------------------------------------------- nutrient lookup (FDC)

NUTRIENT_MAP ==
    ("Energy" :> "calories") @@ ("Protein" :> "protein") @@
    ("Carbohydrate, by difference" :> "carbs") @@
    ("Total lipid (fat)" :> "fat") @@ ("Sugars, total" :> "sugars") @@
    ("Cholesterol" :> "cholesterol") @@
    ("Fatty acids, total saturated" :> "sat_fat") @@
    ("Fatty acids, total monounsaturated" :> "mono_fat") @@
    ("Fatty acids, total polyunsaturated" :> "poly_fat") @@
    ("Fatty acids, total trans" :> "trans_fat") @@
    ("Vitamin A, RAE" :> "vitamin_a") @@ ("Beta-carotene" :> "beta_carotene") @@
    ("Thiamin" :> "vitamin_b1") @@ ("Riboflavin" :> "vitamin_b2") @@
    ("Niacin" :> "vitamin_b3") @@ ("Pantothenic acid" :> "vitamin_b5") @@
    ("Vitamin B-6" :> "vitamin_b6") @@ ("Folate, total" :> "vitamin_b9") @@
    ("Vitamin B-12" :> "vitamin_b12") @@
    ("Vitamin C, total ascorbic acid" :> "vitamin_c") @@
    ("Vitamin D (D2 + D3)" :> "vitamin_d") @@
    ("Vitamin E (alpha-tocopherol)" :> "vitamin_e") @@
    ("Vitamin K (phylloquinone)" :> "vitamin_k") @@
    ("Calcium, Ca" :> "calcium") @@ ("Iron, Fe" :> "iron") @@
    ("Magnesium, Mg" :> "magnesium") @@ ("Phosphorus, P" :> "phosphorus") @@
    ("Potassium, K" :> "potassium") @@ ("Sodium, Na" :> "sodium") @@
    ("Zinc, Zn" :> "zinc") @@ ("Copper, Cu" :> "copper") @@
    ("Manganese, Mn" :> "manganese") @@ ("Selenium, Se" :> "selenium") @@
    ("Chromium, Cr" :> "chromium") @@ ("Molybdenum, Mo" :> "molybdenum") @@
    ("Fluoride, F" :> "fluoride")

ALL_FIELDS ==
    {"calories", "protein", "carbs", "fat", "sugars",
     "cholesterol", "sat_fat", "mono_fat", "poly_fat", "trans_fat",
     "vitamin_a", "beta_carotene", "vitamin_b1", "vitamin_b2",
     "vitamin_b3", "vitamin_b5", "vitamin_b6", "vitamin_b9",
     "vitamin_b12", "vitamin_c", "vitamin_d", "vitamin_e",
     "vitamin_k", "calcium", "iron", "magnesium", "phosphorus",
     "potassium", "sodium", "zinc", "copper", "manganese",
     "selenium", "chromium", "molybdenum", "fluoride"}

\* One element of foodNutrients; an absent key reads as "" or 0.
Flat(name, value) == [nutrientName |-> name, nutrient_name |-> "", value |-> value, amount |-> 0]
Nested(name, amount) == [nutrientName |-> "", nutrient_name |-> name, value |-> 0, amount |-> amount]

\* What the food-composition service holds: for a query, whether the search
\* finds a food, and that food's foodNutrients.
FdcData ==
    ("apple" :> [found |-> TRUE,
                 nutrients |-> << Flat("Energy", 95), Flat("Protein", 1),
                                  Flat("Sugars, total", 19), Flat("Water", 86) >>]) @@
    ("banana" :> [found |-> TRUE,
                  nutrients |-> << Nested("Energy", 440), Nested("Energy", 105),
                                   Nested("Carbohydrate, by difference", 27),
                                   Nested("Cholesterol", 0),
                                   Nested("Potassium, K", 422) >>]) @@
    ("cherry" :> [found |-> TRUE,
                  nutrients |-> << Flat("Energy", 95), Nested("Total lipid (fat)", 1) >>]) @@
    ("qwerty123" :> [found |-> FALSE, nutrients |-> <<>>])

\* Step 3 of fetch_nutrition: the loop over foodNutrients, from element i on.
RECURSIVE MapNutrients(_, _, _)
MapNutrients(nutrients, i, result) ==
    IF i > Len(nutrients) THEN result
    ELSE LET nut == nutrients[i]
             name == OrStr(nut.nutrientName, nut.nutrient_name)
             value == OrNum(OrNum(nut.value, nut.amount), 0)
         IN IF name \in DOMAIN NUTRIENT_MAP
            THEN MapNutrients(nutrients, i + 1,
                              [result EXCEPT ![NUTRIENT_MAP[name]] = value])
            ELSE MapNutrients(nutrients, i + 1, result)

\* fetch_nutrition(food_name) when no request of it raises.
fetch_nutrition(food_name) ==
    LET result == [f \in ALL_FIELDS |-> 0]
        fdc == FdcData[food_name]
    IN IF ~fdc.found THEN result
       ELSE MapNutrients(fdc.nutrients, 1, result)

\* `not nutrition_data`: a dict is falsy exactly when it has no key.
IsFalsyDict(d) == DOMAIN d = {}

\* ------------------------------------------------------------------ inputs

\* The instants at which the server's clock is read during a run:
\* 2011-12-31T00Z, 2011-12-31T10Z and 2012-01-01T00Z.
ClockInstants == {368136, 368146, 368160}

\* Bodies of POST /foodlogs/.
Payloads ==
    {[food_name |-> "apple", quantity |-> 2],
     [food_name |-> "qwerty123", quantity |-> 1]}

\* Requests made while entries are being logged: date= and start_date= as
\* [y, m, d], tz=, year=, month=, skip=, limit= and the list's date=
\* (<<>> is no date).
SummaryDates == {[y |-> 2011, m |-> 12, d |-> 31]}
ZoneNames == {"UTC", "Pacific/Apia"}
YearInputs == {2011, 2012}
MonthInputs == {1, 12}
SkipInputs == {0}
LimitInputs == {1, 100}
ListDates == {<<>>}

\* Requests that probe the window resolution and the parameter validation.
WindowDates ==
    {[y |-> 2011, m |-> 3, d |-> 13], [y |-> 2011, m |-> 11, d |-> 6],
     [y |-> 2011, m |-> 12, d |-> 30], [y |-> 2011, m |-> 12, d |-> 31],
     [y |-> 2012, m |-> 2, d |-> 28]}
WindowZones == {"UTC", "America/Chicago", "Pacific/Apia", "Not/AZone"}
WindowYears == {1899, 1900, 2011, 2012, 2013}
WindowMonths == {0, 1, 2, 5, 12, 13}
WindowSkips == {-1, 0, 1}
WindowLimits == {0, 1, 1000, 1001}
WindowListDates == {<<>>, <<[y |-> 2011, m |-> 12, d |-> 31]>>}

\* Rows a database file may already hold when the process starts: none, or
\* two entries logged at 2011-12-31T00Z by an earlier run.
SeedLogs ==
    << FoodLogRow(1, [food_name |-> "banana", quantity |-> 1], 368136),
       FoodLogRow(2, [food_name |-> "cherry", quantity |-> 3], 368136) >>
SeedNutrition ==
    << NutritionRow(1, 1, fetch_nutrition("banana")),
       NutritionRow(2, 2, fetch_nutrition("cherry")) >>

\* ---------------------------------------------------------------- feedback

\* Text is a sequence of pieces: a whitespace character, or a run of text that
\* holds no whitespace character at either end. A whitespace character that
\* has no escape here is written by its code point.
\* The characters str.strip() removes (those for which str.isspace() holds).
Whitespace ==
    {" ", "\t", "\n", "\r", "\f", "U+000B", "U+001C", "U+001D", "U+001E", "U+001F",
     "U+0085", "U+00A0", "U+1680", "U+2000", "U+2001", "U+2002", "U+2003", "U+2004",
     "U+2005", "U+2006", "U+2007", "U+2008", "U+2009", "U+200A", "U+2028", "U+2029",
     "U+202F", "U+205F", "U+3000"}

RECURSIVE lstrip(_)
lstrip(s) == IF s # <<>> /\ Head(s) \in Whitespace THEN lstrip(Tail(s)) ELSE s

RECURSIVE rstrip(_)
rstrip(s) ==
    IF s # <<>> /\ s[Len(s)] \in Whitespace THEN rstrip(SubSeq(s, 1, Len(s) - 1)) ELSE s

\* str.strip()
strip(s) == rstrip(lstrip(s))

\* The string generate_feedback returns when both endpoints have failed.
FallbackText ==
    << "Sorry, I'm unable to generate feedback at this time. Please check your nutrition data manually." >>

\* The prompts of the model.
Prompts == { <<"Totals: 200 kcal.">>, <<"Totals: 0 kcal.">> }

\* The texts an endpoint may answer with.
ReplyTexts ==
    { <<"Eat more fiber.">>, <<" ", "Drink water.", "\n">>,
      <<"\t", "Drink water.", "\r", "\n">>, <<"U+00A0", "Eat more", " ", "fiber.", "U+00A0">>,
      <<" ">>, <<>> }

\* The value under the key an endpoint's text is read from: a string, null, or
\* no such key.
Absent == [t |-> "absent", text |-> <<>>]
ReplyContents ==
    {[t |-> "str", text |-> x] : x \in ReplyTexts} \cup {[t |-> "null", text |-> <<>>], Absent}

\* The body of an HTTP reply: not JSON, or JSON of one of the shapes
\*   chat        {"choices": [{"message": {"content": c}}]}
\*   generate    {"response": c}
\*   no_choices  {"choices": []}
\*   error       {"error": "..."}
\*   list        [...]
NotJson == [json |-> FALSE, shape |-> "none", content |-> Absent]
ReplyBodies ==
    {NotJson}
    \cup {[json |-> TRUE, shape |-> s, content |-> c] :
             s \in {"chat", "generate"}, c \in ReplyContents}
    \cup {[json |-> TRUE, shape |-> s, content |-> Absent] :
             s \in {"no_choices", "error", "list"}}

\* What client.post may give: a transport error (connection refused, timeout)
\* or an HTTP reply.
EndpointReplies ==
    {[net |-> "error", status |-> 0, body |-> NotJson],
     [net |-> "ok", status |-> 500, body |-> [json |-> TRUE, shape |-> "error", content |-> Absent]]}
    \cup {[net |-> "ok", status |-> 200, body |-> b] : b \in ReplyBodies}
    \cup {[net |-> "ok", status |-> s,
           body |-> [json |-> TRUE, shape |-> sh,
                     content |-> [t |-> "str", text |-> <<"Eat more fiber.">>]]] :
             s \in {199, 299, 302, 400}, sh \in {"chat", "generate"}}

\* Response.is_success: a status of 200..299. raise_for_status raises
\* HTTPStatusError for every other status, redirects (which the client does
\* not follow) included.
is_success(status) == status \in 200..299

\* The outcome of a call: an exception raised or a string returned.
Raises(exc) == [called |-> TRUE, raised |-> TRUE, exc |-> exc, text |-> <<>>]
Returns(text) == [called |-> TRUE, raised |-> FALSE, exc |-> "", text |-> text]
NotCalled == [called |-> FALSE, raised |-> FALSE, exc |-> "", text |-> <<>>]

\* _generate_openai_compatible: POST /v1/chat/completions, raise_for_status,
\* data["choices"][0]["message"]["content"].strip().
generate_openai_compatible(reply) ==
    IF reply.net = "error" THEN Raises("ConnectError")
    ELSE IF ~is_success(reply.status) THEN Raises("HTTPStatusError")
    ELSE IF ~reply.body.json THEN Raises("JSONDecodeError")
    ELSE IF reply.body.shape = "list" THEN Raises("TypeError")
    ELSE IF reply.body.shape \in {"generate", "error"} THEN Raises("KeyError")
    ELSE IF reply.body.shape = "no_choices" THEN Raises("IndexError")
    ELSE IF reply.body.content.t = "absent" THEN Raises("KeyError")
    ELSE IF reply.body.content.t = "null" THEN Raises("AttributeError")
    ELSE Returns(strip(reply.body.content.text))

\* _generate_native_ollama: POST /api/generate, raise_for_status,
\* data.get("response", "").strip().
generate_native_ollama(reply) ==
    IF reply.net = "error" THEN Raises("ConnectError")
    ELSE IF ~is_success(reply.status) THEN Raises("HTTPStatusError")
    ELSE IF ~reply.body.json THEN Raises("JSONDecodeError")
    ELSE IF reply.body.shape = "list" THEN Raises("AttributeError")
    ELSE IF reply.body.shape # "generate" \/ reply.body.content.t = "absent"
         THEN Returns(strip(<<>>))
    ELSE IF reply.body.content.t = "null" THEN Raises("AttributeError")
    ELSE Returns(strip(reply.body.content.text))

\* `except Exception` with only the transport's own errors (httpx.HTTPError).
ExceptHttpErrorOnly(exc) == exc \in {"ConnectError", "HTTPStatusError"}

\* `except Exception`: the exceptions it catches. CancelledError and
\* KeyboardInterrupt derive from BaseException and pass through.
ExceptException(exc) ==
    exc \in {"ConnectError", "HTTPStatusError", "JSONDecodeError", "TypeError",
             "KeyError", "IndexError", "AttributeError"}

\* A call of generate_feedback not in progress.
FeedbackIdle ==
    [pc |-> "idle", prompt |-> <<>>, calls |-> <<>>,
     primary |-> NotCalled, native |-> NotCalled,
     ret |-> [kind |-> "none", from |-> "", exc |-> "", text |-> <<>>]]

\* ------------------------------------------------------------------- state

VARIABLES
    now,        \* the server's clock (UTC)
    year_le,    \* the `le=` bound on year, computed when the routes are defined
    foodlog,    \* table foodlog, in insertion order
    nutrition,  \* table nutrition, in insertion order
    creates,    \* per foodlog id: the state of the POST that made it
                \* (0 awaiting the lookup, else the HTTP status it ended with)
    posts,      \* POST /foodlogs/ requests received in this run
    resp,       \* the GET request in progress or the response just sent
    fb          \* the call of generate_feedback in progress or just returned

vars == <<now, year_le, foodlog, nutrition, creates, posts, resp, fb>>

NoTotals == [calories |-> 0, protein |-> 0, carbs |-> 0, fat |-> 0]

Idle ==
    [op |-> "none", stage |-> "idle", status |-> 0, error |-> "",
     date |-> <<>>, tz |-> "", year |-> 0, month |-> 0, skip |-> 0, limit |-> 0,
     start_utc |-> 0, end_utc |-> 0, totals |-> NoTotals,
     top_foods |-> <<>>, rows |-> <<>>]

\* A response is no longer state once it has been sent; a request between its
\* two queries stays.
Sent(r) == IF r.stage = "top" THEN r ELSE Idle

Init ==
    /\ now \in ClockInstants
    /\ year_le = YearOf(now)
    /\ \/ foodlog = <<>> /\ nutrition = <<>> /\ creates = <<>>
       \/ foodlog = SeedLogs /\ nutrition = SeedNutrition /\ creates = <<201, 201>>
    /\ posts = 0
    /\ resp = Idle
    /\ fb = FeedbackIdle

\* The clock advances.
Tick ==
    /\ \E t \in ClockInstants : t > now /\ now' = t
    /\ resp' = Sent(resp)
    /\ UNCHANGED <<year_le, foodlog, nutrition, creates, posts, fb>>

\* --------------------------------------------------------------- ingestion

\* create_foodlog up to `await fetch_nutrition(...)`: the FoodLog is added,
\* committed and refreshed (id assigned, timestamp defaulted to now).
create_foodlog_commit(payload) ==
    /\ posts < MaxCreates
    /\ posts' = posts + 1
    /\ foodlog' = Append(foodlog, FoodLogRow(Len(foodlog) + 1, payload, now))
    /\ creates' = Append(creates, 0)
    /\ resp' = Sent(resp)
    /\ UNCHANGED <<now, year_le, nutrition, fb>>

\* create_foodlog after the lookup returned: the 404 test, then the Nutrition
\* row is added and committed and the request ends 201.
create_foodlog_finish(lid) ==
    /\ lid \in DOMAIN creates /\ creates[lid] = 0
    /\ LET nutrition_data == fetch_nutrition(foodlog[lid].food_name)
       IN IF IsFalsyDict(nutrition_data)
          THEN /\ creates' = [creates EXCEPT ![lid] = 404]
               /\ UNCHANGED nutrition
          ELSE /\ nutrition' = Append(nutrition,
                                      NutritionRow(Len(nutrition) + 1, lid, nutrition_data))
               /\ creates' = [creates EXCEPT ![lid] = 201]
    /\ resp' = Sent(resp)
    /\ UNCHANGED <<now, year_le, foodlog, posts, fb>>

\* create_foodlog when fetch_nutrition raises (a transport error, or
\* raise_for_status on either response): the exception leaves the handler and
\* the request ends 500.
create_foodlog_raise(lid) ==
    /\ lid \in DOMAIN creates /\ creates[lid] = 0
    /\ creates' = [creates EXCEPT ![lid] = 500]
    /\ resp' = Sent(resp)
    /\ UNCHANGED <<now, year_le, foodlog, nutrition, posts, fb>>

\* ----------------------------------------------------------------- queries

RECURSIVE SumOver(_, _)
\* The sum of f[x] over the finite set S.
SumOver(S, f) ==
    IF S = {} THEN 0
    ELSE LET x == CHOOSE x \in S : TRUE IN f[x] + SumOver(S \ {x}, f)

\* InWindow with the upper bound included (<= end).
InWindowClosed(ts, start, end) == ts >= start /\ ts <= end

\* WHERE FoodLog.timestamp >= start AND FoodLog.timestamp < end.
InWindow(ts, start, end) == ts >= start /\ ts < end

\* Nutrition JOIN FoodLog ... WHERE window: the nutrition rows (by position)
\* whose foodlog row lies in the window.
JoinedRows(start, end) ==
    {n \in DOMAIN nutrition :
        \E l \in DOMAIN foodlog :
            /\ foodlog[l].id = nutrition[n].foodlog_id
            /\ InWindow(foodlog[l].timestamp, start, end)}

\* func.sum(column) over the rows: NULL over no row.
SqlSum(rows, column) ==
    [null |-> rows = {},
     val |-> SumOver(rows, [n \in rows |-> nutrition[n].vals[column]])]

\* `agg.x or 0`: None and 0 both give 0.
OrZero(x) == IF x.null \/ x.val = 0 THEN 0 ELSE x.val

\* The totals of a summary response from the aggregate query over a window.
Totals(start, end) ==
    LET rows == JoinedRows(start, end)
    IN [calories |-> OrZero(SqlSum(rows, "calories")),
        protein |-> OrZero(SqlSum(rows, "protein")),
        carbs |-> OrZero(SqlSum(rows, "carbs")),
        fat |-> OrZero(SqlSum(rows, "fat"))]

\* GROUP BY FoodLog.food_name over the joined rows of the window.
GroupNames(start, end) ==
    {foodlog[l].food_name : l \in {l \in DOMAIN foodlog :
        /\ InWindow(foodlog[l].timestamp, start, end)
        /\ \E n \in DOMAIN nutrition : nutrition[n].foodlog_id = foodlog[l].id}}

\* func.sum(Nutrition.calories) of one group.
GroupCalories(name, start, end) ==
    LET rows == {n \in JoinedRows(start, end) :
                    \E l \in DOMAIN foodlog :
                        /\ foodlog[l].id = nutrition[n].foodlog_id
                        /\ foodlog[l].food_name = name}
    IN SumOver(rows, [n \in rows |-> nutrition[n].vals["calories"]])

\* TopFoodsAnswers without the LIMIT.
TopFoodsAnswersNoLimit(start, end) ==
    LET names == GroupNames(start, end)
        k == Cardinality(names)
        cal == [nm \in names |-> GroupCalories(nm, start, end)]
    IN {[i \in 1..k |-> [food_name |-> r[i], calories |-> cal[r[i]]]] :
          r \in {r \in [1..k -> names] :
                   \A i, j \in 1..k : i < j => r[i] # r[j] /\ cal[r[i]] >= cal[r[j]]}}

\* ORDER BY total_calories DESC LIMIT 3: every answer the database may give.
\* Rows of equal total come in an order SQL leaves to the engine.
TopFoodsAnswers(start, end) ==
    LET names == GroupNames(start, end)
        k == IF Cardinality(names) < TopLimit THEN Cardinality(names) ELSE TopLimit
        cal == [nm \in names |-> GroupCalories(nm, start, end)]
    IN {[i \in 1..k |-> [food_name |-> r[i], calories |-> cal[r[i]]]] :
          r \in {r \in [1..k -> names] :
                   /\ \A i, j \in 1..k : i < j => r[i] # r[j] /\ cal[r[i]] >= cal[r[j]]
                   /\ \A nm \in names \ {r[i] : i \in 1..k} :
                         \A i \in 1..k : cal[r[i]] >= cal[nm]}}

\* ------------------------------------------------------------ time windows

\* LocalWindow with the end taken `days` times 24 hours after the start in UTC.
LocalWindowElapsed(date, tz, days) ==
    LET start_utc == AsUTC(ZoneDB[tz], Midnight(DateOf(date.y, date.m, date.d)))
    IN [start_utc |-> start_utc, end_utc |-> start_utc + days * 24]

\* Lines 91-96 and 146-151: the local window of `days` days from the date,
\* converted to UTC.
LocalWindow(date, tz, days) ==
    LET local_zone == ZoneDB[tz]
        start_local == Midnight(DateOf(date.y, date.m, date.d))
        end_local == start_local + days * 24
    IN [start_utc |-> AsUTC(local_zone, start_local),
        end_utc |-> AsUTC(local_zone, end_local)]

\* MonthWindow with December's end left in the same year.
MonthWindowNoRollover(year, month) ==
    [start_utc |-> DateTimeUTC(year, month, 1),
     end_utc |-> IF month = 12 THEN DateTimeUTC(year, 1, 1)
                 ELSE DateTimeUTC(year, month + 1, 1)]

\* Lines 200-204: the UTC month window.
MonthWindow(year, month) ==
    [start_utc |-> DateTimeUTC(year, month, 1),
     end_utc |-> IF month = 12 THEN DateTimeUTC(year + 1, 1, 1)
                 ELSE DateTimeUTC(year, month + 1, 1)]

\* Lines 234-235: the UTC year window.
YearWindow(year) ==
    [start_utc |-> DateTimeUTC(year, 1, 1), end_utc |-> DateTimeUTC(year + 1, 1, 1)]

\* ---------------------------------------------------------------- summaries

\* An exception that leaves a handler: the framework answers 500.
Unhandled(r, exc) == [r EXCEPT !.stage = "done", !.status = 500, !.error = exc]

\* A query parameter outside its declared bounds: the framework answers 422
\* before the handler runs.
Rejected(r) == [r EXCEPT !.stage = "done", !.status = 422, !.error = "ValidationError"]

\* The first half of daily_summary and weekly_summary: ZoneInfo(tz), the
\* window, the aggregate query.
LocalSummaryAgg(op, date, tz, days) ==
    LET r == [Idle EXCEPT !.op = op, !.date = <<date>>, !.tz = tz]
    IN IF tz \notin KnownZones
       THEN Unhandled(r, "ZoneInfoNotFoundError")
       ELSE LET w == LocalWindow(date, tz, days)
            IN [r EXCEPT !.stage = "top",
                         !.start_utc = w.start_utc, !.end_utc = w.end_utc,
                         !.totals = Totals(w.start_utc, w.end_utc)]

daily_summary_agg(summary_date, tz) ==
    /\ resp.stage = "idle"
    /\ resp' = LocalSummaryAgg("daily", summary_date, tz, 1)
    /\ UNCHANGED <<now, year_le, foodlog, nutrition, creates, posts, fb>>

weekly_summary_agg(start_date, tz) ==
    /\ resp.stage = "idle"
    /\ resp' = LocalSummaryAgg("weekly", start_date, tz, 7)
    /\ UNCHANGED <<now, year_le, foodlog, nutrition, creates, posts, fb>>

\* The second half of daily_summary and weekly_summary: the top-foods query
\* and the response.
summary_top ==
    /\ resp.stage = "top"
    /\ \E top \in TopFoodsAnswers(resp.start_utc, resp.end_utc) :
          resp' = [resp EXCEPT !.stage = "done", !.status = 200, !.top_foods = top]
    /\ UNCHANGED <<now, year_le, foodlog, nutrition, creates, posts, fb>>

monthly_summary(year, month) ==
    /\ resp.stage = "idle"
    /\ LET r == [Idle EXCEPT !.op = "monthly", !.year = year, !.month = month]
       IN IF year < YearMin \/ year > year_le \/ month < MonthMin \/ month > MonthMax
          THEN resp' = Rejected(r)
          ELSE LET w == MonthWindow(year, month)
               IN resp' = [r EXCEPT !.stage = "done", !.status = 200,
                                    !.start_utc = w.start_utc, !.end_utc = w.end_utc,
                                    !.totals = Totals(w.start_utc, w.end_utc)]
    /\ UNCHANGED <<now, year_le, foodlog, nutrition, creates, posts, fb>>

yearly_summary(year) ==
    /\ resp.stage = "idle"
    /\ LET r == [Idle EXCEPT !.op = "yearly", !.year = year]
       IN IF year < YearMin \/ year > year_le
          THEN resp' = Rejected(r)
          ELSE LET w == YearWindow(year)
               IN resp' = [r EXCEPT !.stage = "done", !.status = 200,
                                    !.start_utc = w.start_utc, !.end_utc = w.end_utc,
                                    !.totals = Totals(w.start_utc, w.end_utc)]
    /\ UNCHANGED <<now, year_le, foodlog, nutrition, creates, posts, fb>>

\* -------------------------------------------------------------- list query

\* FoodLogRead of a row.
FoodLogRead(row) ==
    [id |-> row.id, food_name |-> row.food_name, quantity |-> row.quantity,
     timestamp |-> row.timestamp]

\* ListMatches over FoodLog JOIN Nutrition: only entries with a nutrition row.
ListMatchesJoined(log_date) ==
    {l \in DOMAIN foodlog : \E n \in DOMAIN nutrition : nutrition[n].foodlog_id = foodlog[l].id}

\* The rows (by position) the statement selects before ordering.
ListMatches(log_date) ==
    IF log_date = <<>> THEN DOMAIN foodlog
    ELSE LET start == DateTimeUTC(log_date[1].y, log_date[1].m, log_date[1].d)
             end == start + 24
         IN {l \in DOMAIN foodlog : InWindow(foodlog[l].timestamp, start, end)}

\* ORDER BY timestamp OFFSET skip LIMIT limit: every answer the database may
\* give; rows of equal timestamp come in an order SQL leaves to the engine.
ListAnswers(skip, limit, log_date) ==
    LET m == ListMatches(log_date)
        n == Cardinality(m)
        lo == IF skip < n THEN skip ELSE n
        hi == IF skip + limit < n THEN skip + limit ELSE n
    IN {[i \in 1..(hi - lo) |-> FoodLogRead(foodlog[p[lo + i]])] :
          p \in {p \in [1..n -> m] :
                   \A i, j \in 1..n : i < j =>
                       /\ p[i] # p[j]
                       /\ foodlog[p[i]].timestamp <= foodlog[p[j]].timestamp}}

read_foodlogs(skip, limit, log_date) ==
    /\ resp.stage = "idle"
    /\ LET r == [Idle EXCEPT !.op = "list", !.skip = skip, !.limit = limit,
                             !.date = log_date]
       IN IF skip < SkipMin \/ limit < LimitMin \/ limit > LimitMax
          THEN resp' = Rejected(r)
          ELSE \E rows \in ListAnswers(skip, limit, log_date) :
                  resp' = [r EXCEPT !.stage = "done", !.status = 200, !.rows = rows]
    /\ UNCHANGED <<now, year_le, foodlog, nutrition, creates, posts, fb>>

\* The response has been sent: the GET request is over.
response_sent ==
    /\ resp.stage = "done"
    /\ resp' = Idle
    /\ UNCHANGED <<now, year_le, foodlog, nutrition, creates, posts, fb>>

\* ---------------------------------------------------------------- feedback

\* generate_feedback is called: it awaits _generate_openai_compatible.
generate_feedback_call(prompt) ==
    /\ fb.pc = "idle"
    /\ fb' = [FeedbackIdle EXCEPT !.pc = "openai", !.prompt = prompt]
    /\ UNCHANGED <<now, year_le, foodlog, nutrition, creates, posts, resp>>

\* The first try block: the primary endpoint's string is returned, or its
\* exception is caught and the native endpoint is awaited; an exception the
\* handler does not catch leaves generate_feedback.
generate_feedback_openai(reply) ==
    /\ fb.pc = "openai"
    /\ LET r == generate_openai_compatible(reply)
           f == [fb EXCEPT !.calls = Append(fb.calls, "openai"), !.primary = r]
       IN fb' = IF ~r.raised
                THEN [f EXCEPT !.pc = "returned",
                               !.ret = [kind |-> "str", from |-> "openai", exc |-> "",
                                        text |-> r.text]]
                ELSE IF ExceptException(r.exc)
                THEN [f EXCEPT !.pc = "native"]
                ELSE [f EXCEPT !.pc = "returned",
                               !.ret = [kind |-> "raise", from |-> "openai", exc |-> r.exc,
                                        text |-> <<>>]]
    /\ UNCHANGED <<now, year_le, foodlog, nutrition, creates, posts, resp>>

\* The inner try block: the native endpoint's string is returned, or its
\* exception is caught and the fallback string is returned.
generate_feedback_native(reply) ==
    /\ fb.pc = "native"
    /\ LET r == generate_native_ollama(reply)
           f == [fb EXCEPT !.calls = Append(fb.calls, "native"), !.native = r]
       IN fb' = IF ~r.raised
                THEN [f EXCEPT !.pc = "returned",
                               !.ret = [kind |-> "str", from |-> "native", exc |-> "",
                                        text |-> r.text]]
                ELSE IF ExceptException(r.exc)
                THEN [f EXCEPT !.pc = "returned",
                               !.ret = [kind |-> "str", from |-> "fallback", exc |-> "",
                                        text |-> FallbackText]]
                ELSE [f EXCEPT !.pc = "returned",
                               !.ret = [kind |-> "raise", from |-> "native", exc |-> r.exc,
                                        text |-> <<>>]]
    /\ UNCHANGED <<now, year_le, foodlog, nutrition, creates, posts, resp>>

\* The caller has the result: the call is over.
generate_feedback_returned ==
    /\ fb.pc = "returned"
    /\ fb' = FeedbackIdle
    /\ UNCHANGED <<now, year_le, foodlog, nutrition, creates, posts, resp>>

\* ------------------------------------------------------------ specification

Next ==
    \/ Tick
    \/ \E payload \in Payloads : create_foodlog_commit(payload)
    \/ \E lid \in DOMAIN creates : create_foodlog_finish(lid)
    \/ \E lid \in DOMAIN creates : create_foodlog_raise(lid)
    \/ \E d \in SummaryDates, tz \in ZoneNames : daily_summary_agg(d, tz)
    \/ \E d \in SummaryDates, tz \in ZoneNames : weekly_summary_agg(d, tz)
    \/ summary_top
    \/ \E y \in YearInputs, m \in MonthInputs : monthly_summary(y, m)
    \/ \E y \in YearInputs : yearly_summary(y)
    \/ \E skip \in SkipInputs, limit \in LimitInputs, d \in ListDates :
          read_foodlogs(skip, limit, d)
    \/ response_sent

\* The server under requests, entries being logged meanwhile.
Spec == Init /\ [][Next]_vars

NextWindows ==
    \/ Tick
    \/ \E d \in WindowDates, tz \in WindowZones : daily_summary_agg(d, tz)
    \/ \E d \in WindowDates, tz \in WindowZones : weekly_summary_agg(d, tz)
    \/ summary_top
    \/ \E y \in WindowYears, m \in WindowMonths : monthly_summary(y, m)
    \/ \E y \in WindowYears : yearly_summary(y)
    \/ \E skip \in WindowSkips, limit \in WindowLimits, d \in WindowListDates :
          read_foodlogs(skip, limit, d)
    \/ response_sent

\* The server under read-only requests over a wide range of parameters.
SpecWindows == Init /\ [][NextWindows]_vars

NextFeedback ==
    \/ \E prompt \in Prompts : generate_feedback_call(prompt)
    \/ \E reply \in EndpointReplies : generate_feedback_openai(reply)
    \/ \E reply \in EndpointReplies : generate_feedback_native(reply)
    \/ generate_feedback_returned

\* Calls of generate_feedback, the two endpoints answering in every way.
SpecFeedback == Init /\ [][NextFeedback]_vars

\* ------------------------------------------------------------------ claims

SummaryOps == {"daily", "weekly", "monthly", "yearly"}
MacroFields == {"calories", "protein", "carbs", "fat"}

\* The response carries a resolved window.
HasWindow == resp.op \in SummaryOps /\ resp.stage \in {"top", "done"} /\ resp.status \in {0, 200}

\* The entry owning nutrition row n lies in [start, end).
OwnerInWindow(n, start, end) ==
    \E l \in DOMAIN foodlog :
        /\ foodlog[l].id = nutrition[n].foodlog_id
        /\ start <= foodlog[l].timestamp /\ foodlog[l].timestamp < end

RECURSIVE WindowSum(_, _, _, _)
\* The sum of `field` over the first n nutrition rows whose entry lies in
\* [start, end).
WindowSum(field, start, end, n) ==
    IF n = 0 THEN 0
    ELSE WindowSum(field, start, end, n - 1)
         + (IF OwnerInWindow(n, start, end) THEN nutrition[n].vals[field] ELSE 0)

\* A step in which a summary request runs its aggregate query.
AggregateStep ==
    /\ resp.stage = "idle"
    /\ resp'.op \in SummaryOps /\ resp'.stage \in {"top", "done"} /\ resp'.status \in {0, 200}

\* C1: every total a summary reports is the sum of that field over exactly
\* the nutrition rows whose entry has start_utc <= timestamp < end_utc (0 when
\* none has), and the request then succeeds with those totals.
C1_TotalsAreWindowSums ==
    [][/\ AggregateStep =>
            \A f \in MacroFields :
                resp'.totals[f] = WindowSum(f, resp'.start_utc, resp'.end_utc, Len(nutrition))
       /\ (resp.stage = "top" /\ resp'.stage = "done") =>
            resp'.status = 200 /\ resp'.totals = resp.totals]_vars

\* A daily response over [2011-12-31T00Z, 2012-01-01T00Z) with an entry stamped
\* at each bound, whose calories are those of the entries before the end only.
C1_Witness ==
    /\ resp.op = "daily" /\ resp.stage = "done" /\ resp.status = 200
    /\ \E a, b \in DOMAIN nutrition :
          /\ \E l \in DOMAIN foodlog : foodlog[l].id = nutrition[a].foodlog_id
                                       /\ foodlog[l].timestamp = resp.start_utc
          /\ \E l \in DOMAIN foodlog : foodlog[l].id = nutrition[b].foodlog_id
                                       /\ foodlog[l].timestamp = resp.end_utc
          /\ nutrition[b].vals["calories"] > 0
    /\ resp.totals.calories > 0
    /\ resp.totals.calories = WindowSum("calories", resp.start_utc, resp.end_utc, Len(nutrition))

\* The offset a zone applies at the instant u, and the wall time it shows.
OffsetAtUtc(z, u) ==
    LET idx == {i \in DOMAIN z.trans : z.trans[i].at <= u}
    IN IF idx = {} THEN z.init ELSE z.trans[MaxOf(idx)].off
LocalWall(z, u) == u + OffsetAtUtc(z, u)

\* The first instant at which the zone's wall time has reached `wall`.
FirstInstantAtWall(z, wall) ==
    MinOf({u \in (wall - 14)..(wall + 12) : LocalWall(z, u) >= wall})

\* No instant of the zone shows a wall time within the local date `day`.
DateSkipped(z, day) ==
    \A u \in (Midnight(day) - 14)..(Midnight(day + 1) + 12) :
        ~(Midnight(day) <= LocalWall(z, u) /\ LocalWall(z, u) < Midnight(day + 1))

AnchorDay == DateOf(resp.date[1].y, resp.date[1].m, resp.date[1].d)
WindowDays == IF resp.op = "daily" THEN 1 ELSE 7

\* C2: a daily (weekly) window in a recognized zone runs from the instant of
\* local midnight of the anchor date to the instant of local midnight 1 (7)
\* calendar days later, so its length is N*24h less the zone's offset change
\* over it.
C2_LocalMidnightWindow ==
    (resp.op \in {"daily", "weekly"} /\ resp.stage \in {"top", "done"}
        /\ resp.tz \in KnownZones) =>
        LET z == ZoneDB[resp.tz]
            onEdge == \E i \in DOMAIN z.trans : z.trans[i].at \in {resp.start_utc, resp.end_utc}
        IN /\ resp.status # 500
           /\ resp.start_utc = FirstInstantAtWall(z, Midnight(AnchorDay))
           /\ resp.end_utc = FirstInstantAtWall(z, Midnight(AnchorDay + WindowDays))
           /\ ~onEdge =>
                resp.end_utc - resp.start_utc =
                    WindowDays * 24 - (OffsetAtUtc(z, resp.end_utc) - OffsetAtUtc(z, resp.start_utc))

\* The day of the spring-forward transition in America/Chicago: 23 hours.
C2_Witness ==
    /\ resp.op = "daily" /\ resp.stage = "done" /\ resp.status = 200
    /\ resp.tz = "America/Chicago"
    /\ resp.end_utc - resp.start_utc = 23

\* C3 as stated: every resolved window has end_utc > start_utc.
C3_WindowNonEmpty == HasWindow => resp.end_utc > resp.start_utc

\* C3, amended: end_utc >= start_utc always, with equality exactly for a day
\* window whose anchor date the zone skips entirely.
C3_WindowNonEmptyUnlessDateSkipped ==
    HasWindow =>
        /\ resp.end_utc >= resp.start_utc
        /\ resp.end_utc = resp.start_utc <=>
              (resp.op = "daily" /\ DateSkipped(ZoneDB[resp.tz], AnchorDay))

\* 2011-12-30 in Pacific/Apia, the date the zone skipped: an empty window.
C3_Witness ==
    /\ resp.op = "daily" /\ resp.stage = "done" /\ resp.status = 200
    /\ resp.tz = "Pacific/Apia" /\ resp.date = <<[y |-> 2011, m |-> 12, d |-> 30]>>
    /\ resp.end_utc = resp.start_utc

\* C4: the monthly window is [first instant of (year, month), first instant of
\* the next month), December rolling into January of year+1; the yearly window
\* is [Jan 1 of year, Jan 1 of year+1); both in UTC whatever the zone, and the
\* totals are those of that window.
C4_MonthAndYearWindows ==
    /\ (resp.op = "monthly" /\ resp.status = 200) =>
          /\ resp.start_utc = DateTimeUTC(resp.year, resp.month, 1)
          /\ resp.end_utc = resp.start_utc + DaysInMonth(resp.year, resp.month) * 24
          /\ resp.end_utc = IF resp.month = 12 THEN DateTimeUTC(resp.year + 1, 1, 1)
                            ELSE DateTimeUTC(resp.year, resp.month + 1, 1)
    /\ (resp.op = "yearly" /\ resp.status = 200) =>
          /\ resp.start_utc = DateTimeUTC(resp.year, 1, 1)
          /\ resp.end_utc = DateTimeUTC(resp.year + 1, 1, 1)
          /\ resp.end_utc - resp.start_utc = (IF IsLeap(resp.year) THEN 366 ELSE 365) * 24
    /\ (resp.op \in {"monthly", "yearly"} /\ resp.status = 200) =>
          /\ resp.tz = ""
          /\ \A f \in MacroFields :
                resp.totals[f] = WindowSum(f, resp.start_utc, resp.end_utc, Len(nutrition))

\* December 2011, holding the entries of 2011-12-31.
C4_Witness ==
    /\ resp.op = "monthly" /\ resp.status = 200 /\ resp.month = 12
    /\ resp.end_utc = DateTimeUTC(resp.year + 1, 1, 1)
    /\ resp.totals.calories > 0

\* The response of a finished daily or weekly summary.
LocalSummaryDone == resp.op \in {"daily", "weekly"} /\ resp.stage = "done" /\ resp.status = 200

\* The food names of the entries in [start, end) that have a nutrition row.
WindowGroups(start, end) ==
    {foodlog[l].food_name : l \in {l \in DOMAIN foodlog :
        /\ start <= foodlog[l].timestamp /\ foodlog[l].timestamp < end
        /\ \E n \in DOMAIN nutrition : nutrition[n].foodlog_id = foodlog[l].id}}

RECURSIVE NameCalories(_, _, _, _)
\* The calories of the first n nutrition rows whose entry lies in [start, end)
\* and is named `name`.
NameCalories(name, start, end, n) ==
    IF n = 0 THEN 0
    ELSE NameCalories(name, start, end, n - 1)
         + (IF \E l \in DOMAIN foodlog :
                  /\ foodlog[l].id = nutrition[n].foodlog_id
                  /\ foodlog[l].food_name = name
                  /\ start <= foodlog[l].timestamp /\ foodlog[l].timestamp < end
            THEN nutrition[n].vals["calories"] ELSE 0)

\* top_foods lists min(3, groups) distinct groups of the window with their
\* summed calories, in descending order of calories, and no omitted group has
\* more calories than a listed one.
RankedTopGroups(top, start, end) ==
    LET names == WindowGroups(start, end)
        listed == {top[i].food_name : i \in DOMAIN top}
    IN /\ Len(top) <= TopLimit
       /\ Len(top) = IF Cardinality(names) < 3 THEN Cardinality(names) ELSE 3
       /\ \A i \in DOMAIN top :
             /\ top[i].food_name \in names
             /\ top[i].calories = NameCalories(top[i].food_name, start, end, Len(nutrition))
       /\ \A i, j \in DOMAIN top : i < j =>
             top[i].food_name # top[j].food_name /\ top[i].calories >= top[j].calories
       /\ \A nm \in names \ listed : \A i \in DOMAIN top :
             top[i].calories >= NameCalories(nm, start, end, Len(nutrition))

\* The food names of the model in ascending (byte) order.
NameOrder == <<"apple", "banana", "cherry", "qwerty123">>
NameRank(nm) == CHOOSE i \in DOMAIN NameOrder : NameOrder[i] = nm

\* Groups of equal calories come in ascending food_name order.
TiesAscending(top) ==
    \A i \in DOMAIN top : (i + 1 \in DOMAIN top /\ top[i].calories = top[i + 1].calories) =>
        NameRank(top[i].food_name) < NameRank(top[i + 1].food_name)

\* C5 as stated: top_foods is the first min(3, groups) groups by summed
\* calories descending, ties in ascending food_name order.
C5_TopFoodsTiesByName ==
    LocalSummaryDone =>
        /\ RankedTopGroups(resp.top_foods, resp.start_utc, resp.end_utc)
        /\ TiesAscending(resp.top_foods)

\* C5, amended: top_foods is the first min(3, groups) groups by summed calories
\* descending; groups of equal calories come in whatever order the database
\* returns them.
C5_TopFoodsRanked ==
    LocalSummaryDone => RankedTopGroups(resp.top_foods, resp.start_utc, resp.end_utc)

\* Four groups in the window, three listed, two of them of equal calories.
C5_Witness ==
    /\ LocalSummaryDone
    /\ Cardinality(WindowGroups(resp.start_utc, resp.end_utc)) = 4
    /\ Len(resp.top_foods) = 3
    /\ \E i \in 1..2 : resp.top_foods[i].calories = resp.top_foods[i + 1].calories

\* The nutrition rows attached to the entry lid.
AttachedRows(lid) == {n \in DOMAIN nutrition : nutrition[n].foodlog_id = lid}

\* C6: when the lookup finds no match for food_name the request ends 404, not
\* 201, and no nutrition row is persisted for the entry.
C6_NoMatchEnds404 ==
    \A lid \in DOMAIN creates :
        (creates[lid] \notin {0, 500} /\ ~FdcData[foodlog[lid].food_name].found) =>
            creates[lid] = 404 /\ AttachedRows(lid) = {}

\* C7: the entry is committed with id and timestamp before the lookup, and
\* when the request fails at or after the lookup the entry stays in storage
\* with no nutrition row, and the unfiltered list query returns it.
C7_OrphanEntryStays ==
    \A lid \in DOMAIN creates :
        /\ \E l \in DOMAIN foodlog :
              foodlog[l].id = lid /\ foodlog[l].timestamp \in ClockInstants
        /\ creates[lid] \in {0, 404, 500} => AttachedRows(lid) = {}
        /\ (/\ creates[lid] \in {404, 500}
            /\ resp.op = "list" /\ resp.status = 200
            /\ resp.skip = 0 /\ resp.date = <<>> /\ resp.limit >= Len(foodlog)) =>
              \E i \in DOMAIN resp.rows : resp.rows[i].id = lid

\* A request whose lookup raised, its entry listed among others.
C7_Witness ==
    \E lid \in DOMAIN creates :
        /\ creates[lid] = 500
        /\ resp.op = "list" /\ resp.status = 200 /\ Len(resp.rows) >= 2
        /\ \E i \in DOMAIN resp.rows : resp.rows[i].id = lid
        /\ AttachedRows(lid) = {}

\* The stored value of a nutrient: a nutrient without a column stores nothing.
StoredValue(row, f) == IF f \in DOMAIN row.vals THEN row.vals[f] ELSE 0

\* C8: after a successful lookup exactly one nutrition row is attached to the
\* entry, and for every tracked nutrient its stored value is the value the
\* lookup returned, or 0 when the lookup returned none.
C8_EveryTrackedNutrientStored ==
    \A lid \in DOMAIN creates :
        (creates[lid] = 201 /\ FdcData[foodlog[lid].food_name].found) =>
            /\ Cardinality(AttachedRows(lid)) = 1
            /\ \A n \in AttachedRows(lid) : \A f \in ALL_FIELDS :
                  StoredValue(nutrition[n], f) = fetch_nutrition(foodlog[lid].food_name)[f]

\* C9: a daily or weekly request naming an unrecognized zone fails with the
\* InvalidTimezone validation error, before any query.
C9_InvalidTimezoneRejected ==
    (resp.op \in {"daily", "weekly"} /\ resp.stage = "done" /\ resp.tz \notin KnownZones) =>
        /\ resp.error = "InvalidTimezone"
        /\ resp.status \in 400..499
        /\ resp.totals = NoTotals /\ resp.top_foods = <<>>

\* C10: a monthly or yearly request is rejected exactly when month is outside
\* 1..12 or year is outside 1900..Y, Y the current UTC year at the request.
C10_YearBoundIsCurrentYear ==
    (resp.op \in {"monthly", "yearly"} /\ resp.stage = "done") =>
        /\ resp.status \in {200, 422}
        /\ resp.status = 422 <=>
              \/ resp.op = "monthly" /\ (resp.month < 1 \/ resp.month > 12)
              \/ resp.year < 1900 \/ resp.year > YearOf(now)

\* The sum of the calories listed in top_foods, over its first n rows.
RECURSIVE ListedCalories(_, _)
ListedCalories(top, n) ==
    IF n = 0 THEN 0 ELSE top[n].calories + ListedCalories(top, n - 1)

\* C12: in every daily or weekly response the calories listed in top_foods
\* sum to at most totals.calories, and to exactly totals.calories when the
\* window holds at most 3 food names, also when an entry's nutrition row is
\* committed between the aggregate query and the top-foods query.
C12_TotalsAndTopFoodsAgree ==
    LocalSummaryDone =>
        /\ ListedCalories(resp.top_foods, Len(resp.top_foods)) <= resp.totals.calories
        /\ Cardinality(WindowGroups(resp.start_utc, resp.end_utc)) <= 3 =>
              ListedCalories(resp.top_foods, Len(resp.top_foods)) = resp.totals.calories

\* A call of generate_feedback has ended.
FeedbackEnded == fb.pc = "returned"

\* C11: generate_feedback never raises and always returns a string, whatever
\* the two endpoints do: the primary endpoint is called first and its text
\* returned if it succeeds; the native endpoint is called only after the
\* primary has failed and its text returned if it succeeds; the fallback
\* string is returned exactly when both have failed.
C11_LayeredFallback ==
    /\ fb.ret.kind # "raise"
    /\ fb.native.called => (fb.primary.called /\ fb.primary.raised)
    /\ fb.calls \in {<<>>, <<"openai">>, <<"openai", "native">>}
    /\ FeedbackEnded =>
          /\ fb.ret.kind = "str"
          /\ fb.primary.called
          /\ ~fb.primary.raised =>
                /\ fb.ret.from = "openai" /\ fb.ret.text = fb.primary.text
                /\ fb.calls = <<"openai">> /\ ~fb.native.called
          /\ (fb.primary.raised /\ ~fb.native.raised) =>
                /\ fb.ret.from = "native" /\ fb.ret.text = fb.native.text
                /\ fb.calls = <<"openai", "native">> /\ fb.native.called
          /\ fb.ret.from = "fallback" <=>
                (fb.primary.raised /\ fb.native.called /\ fb.native.raised)
          /\ fb.ret.from = "fallback" => fb.ret.text = FallbackText

\* Both endpoints have failed, each in its own way, and the fallback string
\* came back.
C11_Witness ==
    /\ FeedbackEnded
    /\ fb.calls = <<"openai", "native">>
    /\ fb.primary.raised /\ fb.primary.exc = "KeyError"
    /\ fb.native.raised /\ fb.native.exc = "HTTPStatusError"
    /\ fb.ret.kind = "str" /\ fb.ret.text = FallbackText
====
